---- MODULE Spec2Model ----
(***************************************************************************)
(* A model of pydigree's genotype containers (pydigree/genotypes.py):      *)
(* ChromosomeTemplate, GenotypedChromosome, SparseGenotypedChromosome, and *)
(* of the IBS comparator (pydigree/ibs.py) that the tests exercise.        *)
(*                                                                         *)
(* Floats are modelled as integers in units of 1/One, One = 2*Scale: a     *)
(* frequency is an even number 2k (k/Scale), and a uniform draw of         *)
(* np.random.random() in [0,1) is one of 0 .. One-1.  The odd draws are    *)
(* the mid-points of the Scale equally likely intervals between two        *)
(* neighbouring frequencies; the even draws are their end points.          *)
(* Python's None is the string "None".  An operation's outcome is a record *)
(* [op, exc, ret]: exc is "None" or the name of the exception raised.      *)
(***************************************************************************)
EXTENDS Integers, Sequences, FiniteSets

VARIABLES genetic_map, physical_map, labels, frequencies, input, result

vars == <<genetic_map, physical_map, labels, frequencies, input, result>>

template == <<genetic_map, physical_map, labels, frequencies>>

\* ------------------------------------------------------------- bounds
MaxMarkers == 2
MaxChrom == 2
Scale == 2

\* ------------------------------------------------- ChromosomeTemplate
\* The float 1.0.
One == 2 * Scale

\* The sentinel add_genotype stores for frequency=None: -1.0.
Unset == -One

NoneArg == [t |-> "none", v |-> 0]

\* Frequencies a caller may pass: numbers (in and out of [0,1]), None, an
\* object float() rejects with TypeError, a string float() rejects with
\* ValueError.
NumArgs == {-1, 0, 2, One, One + 1}

FreqArgs ==
    {NoneArg, [t |-> "obj", v |-> 0], [t |-> "text", v |-> 0]}
        \cup {[t |-> "num", v |-> k] : k \in NumArgs}

Positions == {0, 5}

Labels == {"None", "rs1"}

BasePairs == {"None"}

\* Python's float(x).
PyFloat(x) ==
    CASE x.t = "num" -> [exc |-> "None", v |-> x.v]
      [] x.t = "obj" -> [exc |-> "TypeError", v |-> 0]
      [] OTHER -> [exc |-> "ValueError", v |-> 0]

\* frequency = float(frequency) if frequency is not None else -1, with the
\* TypeError turned into a ValueError.
ConvertFrequency(frequency) ==
    IF frequency.t = "none" THEN [exc |-> "None", v |-> Unset]
    ELSE LET f == PyFloat(frequency)
         IN  IF f.exc = "None" THEN f ELSE [exc |-> "ValueError", v |-> 0]

nmark == Len(genetic_map)

Outcome(op, exc, ret) == [op |-> op, exc |-> exc, ret |-> ret]

Init ==
    /\ genetic_map = <<>>
    /\ physical_map = <<>>
    /\ labels = <<>>
    /\ frequencies = <<>>
    /\ input = [kind |-> "template"]
    /\ result = Outcome("__init__", "None", <<>>)

add_genotype_early(frequency, map_position, label, bp) ==
    LET f == ConvertFrequency(frequency)
    IN  /\ genetic_map' = Append(genetic_map, map_position)
        /\ IF f.exc # "None"
           THEN /\ result' = Outcome("add_genotype", f.exc, <<>>)
                /\ UNCHANGED <<physical_map, labels, frequencies, input>>
           ELSE /\ frequencies' = Append(frequencies, f.v)
                /\ physical_map' = Append(physical_map, bp)
                /\ labels' = Append(labels, label)
                /\ result' = Outcome("add_genotype", "None", <<>>)
                /\ UNCHANGED input

add_genotype(frequency, map_position, label, bp) ==
    LET f == ConvertFrequency(frequency)
    IN  IF f.exc # "None"
        THEN /\ result' = Outcome("add_genotype", f.exc, <<>>)
             /\ UNCHANGED <<template, input>>
        ELSE /\ genetic_map' = Append(genetic_map, map_position)
             /\ frequencies' = Append(frequencies, f.v)
             /\ physical_map' = Append(physical_map, bp)
             /\ labels' = Append(labels, label)
             /\ result' = Outcome("add_genotype", "None", <<>>)
             /\ UNCHANGED input

\* numpy's arr[position] = frequency: a negative position counts from the
\* end, a position outside -n .. n-1 is an IndexError, a string that is no
\* number a ValueError.
set_frequency(position, frequency) ==
    LET n == Len(frequencies)
        f == PyFloat(frequency)
        i == IF position < 0 THEN position + n + 1 ELSE position + 1
    IN  IF position < -n \/ position >= n
        THEN /\ result' = Outcome("set_frequency", "IndexError", <<>>)
             /\ UNCHANGED <<template, input>>
        ELSE IF f.exc # "None"
        THEN /\ result' = Outcome("set_frequency", f.exc, <<>>)
             /\ UNCHANGED <<template, input>>
        ELSE /\ frequencies' = [frequencies EXCEPT ![i] = f.v]
             /\ result' = Outcome("set_frequency", "None", <<>>)
             /\ UNCHANGED <<genetic_map, physical_map, labels, input>>

AddGenotype ==
    /\ input.kind = "template"
    /\ \E frequency \in FreqArgs, map_position \in Positions,
          label \in Labels, bp \in BasePairs :
          /\ (ConvertFrequency(frequency).exc = "None" => nmark < MaxMarkers)
          /\ add_genotype(frequency, map_position, label, bp)

SetFrequency ==
    /\ input.kind = "template"
    /\ \E position \in -(MaxMarkers + 1) .. MaxMarkers,
          frequency \in {[t |-> "text", v |-> 0]}
                           \cup {[t |-> "num", v |-> k] : k \in NumArgs \cup {Unset}} :
          set_frequency(position, frequency)

Nmark ==
    /\ input.kind = "template"
    /\ result' = Outcome("nmark", "None", <<nmark>>)
    /\ UNCHANGED <<template, input>>

NextTemplate == AddGenotype \/ SetFrequency \/ Nmark

SpecTemplate == Init /\ [][NextTemplate]_vars

\* r = np.array(r > self.frequencies, dtype=np.uint8) + 1, at one marker.
AlleleFromDraw(r, frequency) == IF r > frequency THEN 2 ELSE 1

\* The values np.random.random() draws from [0,1).
Draws == 0 .. (One - 1)

\* (self.frequencies < 0).any()
AnyNegative(freqs) == \E i \in 1 .. Len(freqs) : freqs[i] < 0

ChromosomeFromDraws(r) ==
    [i \in 1 .. Len(frequencies) |-> AlleleFromDraw(r[i], frequencies[i])]

linkageequilibrium_chromosome(r) ==
    IF AnyNegative(frequencies)
    THEN /\ result' = Outcome("linkageequilibrium_chromosome", "ValueError", <<>>)
         /\ UNCHANGED <<template, input>>
    ELSE /\ result' = Outcome("linkageequilibrium_chromosome", "None",
                              <<ChromosomeFromDraws(r)>>)
         /\ UNCHANGED <<template, input>>

linkageequilibrium_chromosomes(nchrom, chroms) ==
    /\ result' = Outcome("linkageequilibrium_chromosomes", "None",
                         [k \in 1 .. nchrom |-> ChromosomeFromDraws(chroms[k])])
    /\ UNCHANGED <<template, input>>

LinkageEquilibriumChromosome ==
    /\ input.kind = "template"
    /\ \E r \in [1 .. nmark -> Draws] : linkageequilibrium_chromosome(r)

LinkageEquilibriumChromosomes ==
    /\ input.kind = "template"
    /\ \E nchrom \in 1 .. MaxChrom :
          \E chroms \in [1 .. nchrom -> [1 .. nmark -> Draws]] :
              linkageequilibrium_chromosomes(nchrom, chroms)

Next ==
    \/ AddGenotype
    \/ SetFrequency
    \/ Nmark
    \/ LinkageEquilibriumChromosome
    \/ LinkageEquilibriumChromosomes

Spec == Init /\ [][Next]_vars

\* ------------------------------------------------ claims on the template
IsGeneration ==
    result.op \in {"linkageequilibrium_chromosome", "linkageequilibrium_chromosomes"}

SomeUnset == \E i \in 1 .. Len(frequencies) : frequencies[i] = Unset

\* C6: whenever some frequency of the template is the unset sentinel, a
\* generation operation (one or many) fails with a value error and returns
\* no container.
C6_GenerationFailsWhenUnset ==
    (IsGeneration /\ SomeUnset) => (result.exc = "ValueError" /\ result.ret = <<>>)

AllInUnitInterval ==
    \A i \in 1 .. Len(frequencies) : frequencies[i] >= 0 /\ frequencies[i] <= One

\* The number of the Scale equally likely intervals of [0,1) whose draws give
\* code 2 at a marker of frequency f: P(code = 2) = CountCode2(f) / Scale.
CountCode2(f) ==
    Cardinality({r \in Draws : r % 2 = 1 /\ AlleleFromDraw(r, f) = 2})

\* C7: in a container generated from a template whose frequencies are all
\* set (and in [0,1]), every code is 1 or 2, the code at marker i is 2 with
\* probability frequency[i], a marker of frequency 0 never yields 2 and a
\* marker of frequency 1 never yields 1.
C7_GenerationRespectsFrequency ==
    (IsGeneration /\ result.exc = "None" /\ AllInUnitInterval) =>
        /\ \A i \in 1 .. Len(frequencies) : 2 * CountCode2(frequencies[i]) = frequencies[i]
        /\ \A k \in 1 .. Len(result.ret) :
              /\ Len(result.ret[k]) = nmark
              /\ \A i \in 1 .. nmark :
                    /\ result.ret[k][i] \in {1, 2}
                    /\ (frequencies[i] = 0 => result.ret[k][i] # 2)
                    /\ (frequencies[i] = One => result.ret[k][i] # 1)

\* C8: every entry of frequencies is the unset sentinel -1 or a value in
\* [0,1].
C8_FrequenciesInRange ==
    \A i \in 1 .. Len(frequencies) :
        frequencies[i] = Unset \/ (frequencies[i] >= 0 /\ frequencies[i] <= One)

ParallelLengths ==
    /\ Len(physical_map) = Len(genetic_map)
    /\ Len(labels) = Len(genetic_map)
    /\ Len(frequencies) = Len(genetic_map)
    /\ (result.op = "nmark" => result.ret = <<Len(frequencies)>>)

FailedAppend == result.op = "add_genotype" /\ result.exc = "ValueError"

\* C9: the four parallel sequences always have the same length, which is
\* what nmark() returns; the length never decreases; an append that fails
\* with a value error changes none of the four sequences.
C9_ParallelSequences ==
    /\ []ParallelLengths
    /\ [][/\ Len(genetic_map') >= Len(genetic_map)
          /\ (FailedAppend' => template' = template)]_vars

\* A failing append has been made on a template that holds markers.
C9_Witness == FailedAppend /\ nmark = MaxMarkers /\ ParallelLengths

\* ------------------------------------------------- genotype containers
MaxLen == 3

IntCodes == {0, 1, 2}

StrCodes == {"", "0", "1"}

Codes(dtype) == IF dtype = "int" THEN IntCodes ELSE StrCodes

SeqsUpTo(S, n) == UNION {[1 .. k -> S] : k \in 0 .. n}

\* np.issubdtype(self.dtype, np.integer)
IsInteger(dtype) == dtype = "int"

\* enumerate(data): the pairs (i, x), i counted from 0.
Enumerate(data) == [k \in 1 .. Len(data) |-> <<k - 1, data[k]>>]

\* GenotypedChromosome.missing
DenseMissing(dtype, data) ==
    IF IsInteger(dtype)
    THEN [k \in 1 .. Len(data) |-> data[k] = 0]
    ELSE [k \in 1 .. Len(data) |-> data[k] = ""]

\* [(i,x) for i,x in enumerate(data) if x != refcode]
array2nonref(dtype, data) ==
    IF IsInteger(dtype)
    THEN SelectSeq(Enumerate(data), LAMBDA p : p[2] # 0)
    ELSE SelectSeq(Enumerate(data), LAMBDA p : p[2] # "0")

\* Python's x == '': an integer never equals a string.
EqualsEmptyString(dtype, x) == IF IsInteger(dtype) THEN FALSE ELSE x = ""

\* [i for i,x in enumerate(data) if x == '']
array2missing(dtype, data) ==
    LET hits == SelectSeq(Enumerate(data), LAMBDA p : EqualsEmptyString(dtype, p[2]))
    IN  [j \in 1 .. Len(hits) |-> hits[j][1]]

\* SparseGenotypedChromosome.__init__
SparseGenotypedChromosome(dtype, data) ==
    [dtype |-> dtype,
     size |-> Len(data),
     non_refalleles |-> array2nonref(dtype, data),
     missingindices |-> array2missing(dtype, data)]

\* SparseGenotypedChromosome.missing: base[self.missingindices] = 1
SparseMissing(self) ==
    [k \in 1 .. self.size |->
        \E j \in 1 .. Len(self.missingindices) : self.missingindices[j] = k - 1]

\* The marker indices of a list of (index, allele) pairs.
NonRefLocs(alleles) == {alleles[j][1] : j \in 1 .. Len(alleles)}

\* The allele a list of (index, allele) pairs stores for marker i.
AlleleAt(alleles, i) ==
    LET j == CHOOSE j \in 1 .. Len(alleles) : alleles[j][1] = i
    IN  alleles[j][2]

\* SparseGenotypedChromosome.__eq__.  self.non_refalleles[i] indexes the
\* list of pairs by the marker index i: position i of the list (an
\* IndexError when the list is shorter), not the pair of marker i.
sparse_eq(self, other) ==
    IF self.size # other.size THEN [exc |-> "ValueError", ret |-> <<>>]
    ELSE LET a == NonRefLocs(self.non_refalleles)
             b == NonRefLocs(other.non_refalleles)
             symdiff == (a \ b) \cup (b \ a)
             both == a \cap b
         IN  IF \E i \in both : \/ i >= Len(self.non_refalleles)
                                 \/ i >= Len(other.non_refalleles)
             THEN [exc |-> "IndexError", ret |-> <<>>]
             ELSE [exc |-> "None",
                   ret |-> [k \in 1 .. self.size |->
                              /\ (k - 1) \notin symdiff
                              /\ ((k - 1) \in both =>
                                     self.non_refalleles[k] = other.non_refalleles[k])]]

\* The attributes numpy has, among those todense asks for.
NumpyAttributes == {"zeros", "ones", "array", "asarray", "append"}

\* The attributes __init__ sets on a SparseGenotypedChromosome.
SparseAttributes == {"dtype", "size", "non_refalleles", "missingindices"}

\* The array todense is written to build: zeros overwritten at the stored
\* non-reference markers.  numpy's zero of a string dtype is ''.
Overwritten(self) ==
    [k \in 1 .. self.size |->
        IF (k - 1) \in NonRefLocs(self.non_refalleles)
        THEN AlleleAt(self.non_refalleles, k - 1)
        ELSE IF IsInteger(self.dtype) THEN 0 ELSE ""]

\* SparseGenotypedChromosome.todense: it asks numpy for "zeroes" and self
\* for "nmark" and "nonref_alleles"; a name that is not there is an
\* AttributeError.
todense(self) ==
    IF \/ "zeroes" \notin NumpyAttributes
       \/ "nmark" \notin SparseAttributes
       \/ "nonref_alleles" \notin SparseAttributes
    THEN [exc |-> "AttributeError", ret |-> <<>>]
    ELSE [exc |-> "None", ret |-> Overwritten(self)]

\* The methods GenotypedChromosome defines to raise NotMeaningfulError.
RaisingMethods == {"__lt__", "__gt__", "__lte__", "__gte__"}

\* The method Python calls for an ordering operator.
RichCompareMethod(op) ==
    CASE op = "<" -> "__lt__"
      [] op = ">" -> "__gt__"
      [] op = "<=" -> "__le__"
      [] op = ">=" -> "__ge__"

\* The order of the codes: the integers' own, the strings' lexicographic.
Rank(dtype, x) ==
    IF IsInteger(dtype) THEN x
    ELSE CASE x = "" -> 0 [] x = "0" -> 1 [] OTHER -> 2

\* np.ndarray's elementwise comparison, which a method GenotypedChromosome
\* does not define falls back to.
NdarrayCompare(op, dtype, x, y) ==
    [k \in 1 .. Len(x) |->
        CASE op = "<" -> Rank(dtype, x[k]) < Rank(dtype, y[k])
          [] op = ">" -> Rank(dtype, x[k]) > Rank(dtype, y[k])
          [] op = "<=" -> Rank(dtype, x[k]) <= Rank(dtype, y[k])
          [] op = ">=" -> Rank(dtype, x[k]) >= Rank(dtype, y[k])]

\* GenotypedChromosome(x) op GenotypedChromosome(y)
dense_compare(op, dtype, x, y) ==
    IF RichCompareMethod(op) \in RaisingMethods
    THEN [exc |-> "NotMeaningfulError", ret |-> <<>>]
    ELSE [exc |-> "None", ret |-> NdarrayCompare(op, dtype, x, y)]

OrderingOps == {"<", ">", "<=", ">="}

InitGenotype ==
    /\ genetic_map = <<>>
    /\ physical_map = <<>>
    /\ labels = <<>>
    /\ frequencies = <<>>
    /\ \E dtype \in {"int", "str"} :
          \E a \in SeqsUpTo(Codes(dtype), MaxLen), b \in SeqsUpTo(Codes(dtype), MaxLen) :
              input = [kind |-> "genotype", dtype |-> dtype, a |-> a, b |-> b]
    /\ result = Outcome("__init__", "None", <<>>)

Returns(op, outcome) ==
    /\ result' = Outcome(op, outcome.exc, outcome.ret)
    /\ UNCHANGED <<template, input>>

Missing ==
    /\ input.kind = "genotype"
    /\ Returns("missing", [exc |-> "None", ret |-> DenseMissing(input.dtype, input.a)])

SparseMissingOf ==
    /\ input.kind = "genotype"
    /\ Returns("sparse_missing",
               [exc |-> "None",
                ret |-> SparseMissing(SparseGenotypedChromosome(input.dtype, input.a))])

SparseEq ==
    /\ input.kind = "genotype"
    /\ Returns("sparse_eq",
               sparse_eq(SparseGenotypedChromosome(input.dtype, input.a),
                         SparseGenotypedChromosome(input.dtype, input.b)))

ToDense ==
    /\ input.kind = "genotype"
    /\ Returns("todense", todense(SparseGenotypedChromosome(input.dtype, input.a)))

DenseCompare ==
    /\ input.kind = "genotype"
    /\ Len(input.a) = Len(input.b)
    /\ \E op \in OrderingOps :
          Returns(op, dense_compare(op, input.dtype, input.a, input.b))

NextGenotype == Missing \/ SparseMissingOf \/ SparseEq \/ ToDense \/ DenseCompare

SpecGenotype == InitGenotype /\ [][NextGenotype]_vars

\* -------------------------------------------- claims on the containers
\* C3: to_dense() of the Sparse container built from s succeeds and returns
\* s, missing positions included.
C3_SparseRoundTrip ==
    result.op = "todense" => (result.exc = "None" /\ result.ret = input.a)

\* C4: the equality of Sparse(s1) against Sparse(s2), s1 and s2 of the same
\* size, returns the mask that is true at i exactly when s1[i] = s2[i].
C4_SparseEqualityMask ==
    (result.op = "sparse_eq" /\ Len(input.a) = Len(input.b)) =>
        /\ result.exc = "None"
        /\ result.ret = [k \in 1 .. Len(input.a) |-> input.a[k] = input.b[k]]

\* C5: each of <, >, <= and >= on a Dense container fails with the
\* not-meaningful error and returns no result.
C5_OrderingNotMeaningful ==
    result.op \in OrderingOps =>
        (result.exc = "NotMeaningfulError" /\ result.ret = <<>>)

\* C10: the missing mask of Sparse(s) is true exactly where s holds the
\* missing sentinel of its type (0 for integers, '' for strings): it is the
\* missing mask of the Dense container of s.
C10_SparseMissingMask ==
    result.op = "sparse_missing" =>
        /\ Len(result.ret) = Len(input.a)
        /\ \A k \in 1 .. Len(input.a) :
              result.ret[k] = IF input.dtype = "int" THEN input.a[k] = 0
                              ELSE input.a[k] = ""

\* ------------------------------------------------------ IBS comparator
MaxStrand == 2

\* The missing value chromwide_ibs stores in its array.
ChromwideMissing == 64

PyNone == [none |-> TRUE, v |-> 0]

PyInt(n) == [none |-> FALSE, v |-> n]

Genotypes == {<<x, y>> : x \in IntCodes, y \in IntCodes}

ibs_positional(g1, g2, missingval) ==
    IF g1 = <<0, 0>> \/ g2 = <<0, 0>> THEN missingval
    ELSE PyInt((IF g1[1] = g2[1] THEN 1 ELSE 0) + (IF g1[2] = g2[2] THEN 1 ELSE 0))

\* ibs(g1, g2, missingval=None): the missing value when either genotype is
\* all-missing, else the alleles of g1 matched one by one against those of
\* g2 not matched yet.
ibs(g1, g2, missingval) ==
    IF g1 = <<0, 0>> \/ g2 = <<0, 0>> THEN missingval
    ELSE LET rest == IF g1[1] = g2[1] THEN <<g2[2]>>
                     ELSE IF g1[1] = g2[2] THEN <<g2[1]>>
                     ELSE g2
             first == IF Len(rest) < Len(g2) THEN 1 ELSE 0
             second == IF \E k \in 1 .. Len(rest) : rest[k] = g1[2] THEN 1 ELSE 0
         IN  PyInt(first + second)

Dense(data) == [kind |-> "dense", data |-> data]

Sparse(data) == [kind |-> "sparse", sp |-> SparseGenotypedChromosome("int", data)]

\* The dense view of a strand of either encoding.
Materialize(strand) ==
    IF strand.kind = "dense" THEN [exc |-> "None", ret |-> strand.data]
    ELSE todense(strand.sp)

\* chromwide_ibs(a, b, c, d, missingval=64): ibs at every marker of the
\* dense views of the four strands.
chromwide_ibs(a, b, c, d, missingval) ==
    LET da == Materialize(a)
        db == Materialize(b)
        dc == Materialize(c)
        dd == Materialize(d)
    IN  IF da.exc # "None" THEN da
        ELSE IF db.exc # "None" THEN db
        ELSE IF dc.exc # "None" THEN dc
        ELSE IF dd.exc # "None" THEN dd
        ELSE [exc |-> "None",
              ret |-> [k \in 1 .. Len(da.ret) |->
                         ibs(<<da.ret[k], db.ret[k]>>, <<dc.ret[k], dd.ret[k]>>,
                             PyInt(missingval)).v]]

InitIbs ==
    /\ genetic_map = <<>>
    /\ physical_map = <<>>
    /\ labels = <<>>
    /\ frequencies = <<>>
    /\ \E g1 \in Genotypes, g2 \in Genotypes,
          missingval \in {PyNone, PyInt(ChromwideMissing)} :
          input = [kind |-> "ibs", g1 |-> g1, g2 |-> g2, missingval |-> missingval]
    /\ result = Outcome("__init__", "None", <<>>)

Ibs ==
    /\ input.kind = "ibs"
    /\ Returns("ibs", [exc |-> "None",
                       ret |-> <<ibs(input.g1, input.g2, input.missingval)>>])

NextIbs == Ibs

SpecIbs == InitIbs /\ [][NextIbs]_vars

InitChromwide ==
    /\ genetic_map = <<>>
    /\ physical_map = <<>>
    /\ labels = <<>>
    /\ frequencies = <<>>
    /\ \E n \in 0 .. MaxStrand :
          \E a \in [1 .. n -> IntCodes], b \in [1 .. n -> IntCodes],
             c \in [1 .. n -> IntCodes], d \in [1 .. n -> IntCodes] :
              input = [kind |-> "chromwide", a |-> a, b |-> b, c |-> c, d |-> d]
    /\ result = Outcome("__init__", "None", <<>>)

ChromwideIbsDense ==
    /\ input.kind = "chromwide"
    /\ Returns("chromwide_ibs_dense",
               chromwide_ibs(Dense(input.a), Dense(input.b), Dense(input.c),
                             Dense(input.d), ChromwideMissing))

ChromwideIbsSparse ==
    /\ input.kind = "chromwide"
    /\ Returns("chromwide_ibs_sparse",
               chromwide_ibs(Sparse(input.a), Sparse(input.b), Sparse(input.c),
                             Sparse(input.d), ChromwideMissing))

NextChromwide == ChromwideIbsDense \/ ChromwideIbsSparse

SpecChromwide == InitChromwide /\ [][NextChromwide]_vars

\* ------------------------------------------------ claims on the comparator
\* How many times allele x occurs in genotype g.
Count(g, x) == Cardinality({k \in 1 .. 2 : g[k] = x})

Min(m, n) == IF m < n THEN m ELSE n

\* The size of the multiset intersection of two genotypes.
SharedAlleles(g1, g2) ==
    Min(Count(g1, 0), Count(g2, 0)) + Min(Count(g1, 1), Count(g2, 1))
        + Min(Count(g1, 2), Count(g2, 2))

SameMultiset(g1, g2) == \A x \in IntCodes : Count(g1, x) = Count(g2, x)

AllMissing(g) == g[1] = 0 /\ g[2] = 0

\* The dense result chromwide_ibs is to give: at every marker the missing
\* sentinel when either genotype is all-missing, else the shared alleles.
ExpectedChromwide(a, b, c, d) ==
    [k \in 1 .. Len(a) |->
        IF AllMissing(<<a[k], b[k]>>) \/ AllMissing(<<c[k], d[k]>>)
        THEN ChromwideMissing
        ELSE SharedAlleles(<<a[k], b[k]>>, <<c[k], d[k]>>)]

\* C1: chromwide_ibs over the four strands as Sparse containers returns the
\* array chromwide_ibs returns over the same strands as Dense containers,
\* element for element, the sentinel 64 at all-missing markers included.
C1_SparseMatchesDense ==
    result.op = "chromwide_ibs_sparse" =>
        /\ result.exc = "None"
        /\ result.ret = chromwide_ibs(Dense(input.a), Dense(input.b), Dense(input.c),
                                      Dense(input.d), ChromwideMissing).ret
        /\ result.ret = ExpectedChromwide(input.a, input.b, input.c, input.d)

\* C2: ibs returns the missing value when either genotype is (0,0), and
\* otherwise the size of the multiset intersection of the two genotypes: 2
\* when they are the same multiset, 1 when exactly one allele is shared, 0
\* when none is; always 0, 1, 2 or the missing value.
C2_IbsIsMultisetIntersection ==
    result.op = "ibs" =>
        LET got == result.ret[1]
            g1 == input.g1
            g2 == input.g2
        IN  IF AllMissing(g1) \/ AllMissing(g2)
            THEN got = input.missingval
            ELSE /\ got = PyInt(SharedAlleles(g1, g2))
                 /\ got.v \in {0, 1, 2}
                 /\ (got.v = 2 <=> SameMultiset(g1, g2))
                 /\ (got.v = 0 <=> \A i \in 1 .. 2, j \in 1 .. 2 : g1[i] # g2[j])

\* ibs((2,1), (1,2)) has returned 2: the same genotype in the other order.
C2_Witness ==
    /\ result.op = "ibs"
    /\ input.g1 = <<2, 1>>
    /\ input.g2 = <<1, 2>>
    /\ result.ret = <<PyInt(2)>>

====
